---- MODULE Spec2Model ----
(***************************************************************************)
(* Model of the two CLI commands of this fragment:                         *)
(*   disk.ls              (cli/disk/ls.go, ls.Run and lsResult.Write)      *)
(*   host.account.remove  (remove.Run)                                     *)
(* One invocation runs one command.  Every remote call of the manager is   *)
(* one step; the manager is the environment, so the outcome of a call is   *)
(* chosen nondeterministically among success and the faults it can raise.  *)
(* `calls' is the history of the calls made so far, with their outcomes.   *)
(* The -l columns of Write (size, creation time) are rendered by           *)
(* units.FileSize and time.Format and are left out of the rows.            *)
(***************************************************************************)
EXTENDS Integers, Sequences, FiniteSets, TLC

VARIABLES command, cmd, args, accountId,
          pc, filterNotFound, ids, idx, o, res, ret,
          calls, written, out

vars == <<command, cmd, args, accountId,
          pc, filterNotFound, ids, idx, o, res, ret,
          calls, written, out>>

-----------------------------------------------------------------------------
(* Bounds *)

\* largest number of positional IDs on the command line
MaxArgs == 2
\* largest number of IDs a discovery call returns
MaxList == 2

-----------------------------------------------------------------------------
(* Values *)

IDs == {"id1", "id2"}
Accounts == {"alice", "bob"}
\* the typed faults a remote call can fail with
Faults == {"NotFound", "NoPermission"}
\* tag queries: (-c, -t)
Queries == {<<"", "">>, <<"k8s-region", "">>, <<"k8s-region", "us-west-2">>}
\* what the server may report as the backing of a disk
Backings == {"DiskFileBackingInfo", "RawDiskMappingBackingInfo", "nil"}
TagLists == {<<>>, <<[category |-> "k8s-region", tag |-> "us-west-2"]>>}

SeqsUpTo(S, n) == UNION {[1..k -> S] : k \in 0..n}

NotFoundName == "not found: use 'disk.ls -R' to reconcile datastore inventory"

\* the inventory of the datastore: name and backing file of each disk
NameOf(id) == IF id = "id1" THEN "disk-1" ELSE "disk-2"
FilePathOf(id) == IF id = "id1" THEN "[ds] fcd/1.vmdk" ELSE "[ds] fcd/2.vmdk"

\* the nil error
Nil == [prefix |-> "", id |-> "", src |-> "", fault |-> ""]
\* the error a remote call op returns when it fails with fault f
RemoteErr(op, f) == [prefix |-> "", id |-> "", src |-> op, fault |-> f]

NoObject == [id |-> "", name |-> "", backing |-> "nil", filePath |-> "",
             tags |-> <<>>]

DefaultFlags == [all |-> FALSE, path |-> FALSE, r |-> FALSE,
                 category |-> "", tag |-> "", tags |-> FALSE]

Call(op, a, b, r) == [op |-> op, arg |-> a, arg2 |-> b, res |-> r]

-----------------------------------------------------------------------------
(* disk.ls *)

\* the object m.Retrieve returns for id, with the backing the server reports
Retrieved(id, b) ==
    [id |-> id, name |-> NameOf(id), backing |-> b,
     filePath |-> IF b = "nil" THEN "" ELSE FilePathOf(id), tags |-> <<>>]

\* the placeholder for an ID whose backing is gone
Placeholder(id) ==
    [id |-> id, name |-> NotFoundName, backing |-> "nil", filePath |-> "",
     tags |-> <<>>]

\* mutant: not-found is filtered for positional IDs too
filterNotFoundOf_always(a) == TRUE

\* filterNotFound: set only when no ID was given
filterNotFoundOf(a) == Len(a) = 0

\* mutant: -R is ignored
reconcileWanted_never(c) == FALSE

reconcileWanted(c) == c.r

\* mutant: -c is ignored
discoveryOp_list(c) == "List"

discoveryOp(c) == IF c.category = "" THEN "List" ELSE "ListAttachedObjects"

\* mutant: -T is ignored
lookupTags_never(c) == FALSE

lookupTags(c) == c.tags

\* mutant: the placeholder is appended whatever -a is
onRetrieveError_noFlag(filter, c, f) ==
    IF filter /\ f = "NotFound" THEN "placeholder" ELSE "fatal"

\* mutant: every fault is taken for not-found
onRetrieveError_anyFault(filter, c, f) ==
    IF filter
    THEN IF c.all THEN "placeholder" ELSE "skip"
    ELSE "fatal"

\* what the loop does with a failed Retrieve; fault.Is tests the fault's type
onRetrieveError(filter, c, f) ==
    IF filter /\ f = "NotFound"
    THEN IF c.all THEN "placeholder" ELSE "skip"
    ELSE "fatal"

\* fmt.Errorf("retrieve %q: %s", id, err)
retrieveErr(id, f) ==
    [prefix |-> "retrieve", id |-> id, src |-> "Retrieve", fault |-> f]

\* mutant: the object is put in front
appendObject_front(objs, obj) == <<obj>> \o objs

appendObject(objs, obj) == Append(objs, obj)

\* VStorageObject.tags
tagsOf(obj) ==
    [i \in 1..Len(obj.tags) |->
        <<obj.tags[i].category, ":", obj.tags[i].tag>>]

\* mutant: the path of any backing that has one is shown
nameColumn_anyBacking(c, obj) ==
    IF c.path /\ obj.backing # "nil"
    THEN obj.filePath
    ELSE obj.name

\* the second column of a row
nameColumn(c, obj) ==
    IF c.path /\ obj.backing = "DiskFileBackingInfo"
    THEN obj.filePath
    ELSE obj.name

\* lsResult.Write: one row per object
Write(c, objs) ==
    [i \in 1..Len(objs) |->
        [id |-> objs[i].id,
         name |-> nameColumn(c, objs[i]),
         tags |-> IF c.tags THEN <<tagsOf(objs[i])>> ELSE <<>>]]

Return(e) ==
    /\ ret' = e
    /\ pc' = "done"

ls_NewManager ==
    /\ command = "disk.ls"
    /\ pc = "start"
    /\ \/ \E f \in Faults :
            /\ calls' = Append(calls, Call("NewManagerFromFlag", "", "", f))
            /\ Return(RemoteErr("NewManagerFromFlag", f))
       \/ /\ calls' = Append(calls, Call("NewManagerFromFlag", "", "", "ok"))
          /\ pc' = IF reconcileWanted(cmd) THEN "reconcile" ELSE "args"
          /\ ret' = ret
    /\ UNCHANGED <<command, cmd, args, accountId, filterNotFound, ids, idx, o,
                   res, written, out>>

ls_Reconcile ==
    /\ command = "disk.ls"
    /\ pc = "reconcile"
    /\ \/ \E f \in Faults :
            /\ calls' = Append(calls,
                          Call("ReconcileDatastoreInventory", "", "", f))
            /\ Return(RemoteErr("ReconcileDatastoreInventory", f))
       \/ /\ calls' = Append(calls,
                          Call("ReconcileDatastoreInventory", "", "", "ok"))
          /\ pc' = "args"
          /\ ret' = ret
    /\ UNCHANGED <<command, cmd, args, accountId, filterNotFound, ids, idx, o,
                   res, written, out>>

ls_Args ==
    /\ command = "disk.ls"
    /\ pc = "args"
    /\ res' = <<>>
    /\ filterNotFound' = filterNotFoundOf(args)
    /\ ids' = args
    /\ idx' = 1
    /\ pc' = IF Len(args) = 0 THEN "discover" ELSE "loop"
    /\ UNCHANGED <<command, cmd, args, accountId, o, ret, calls, written, out>>

ls_Discover ==
    /\ command = "disk.ls"
    /\ pc = "discover"
    /\ LET op == discoveryOp(cmd)
           a == IF op = "List" THEN "" ELSE cmd.category
           b == IF op = "List" THEN "" ELSE cmd.tag
       IN \/ \E f \in Faults :
               /\ calls' = Append(calls, Call(op, a, b, f))
               /\ Return(RemoteErr(op, f))
               /\ ids' = ids
          \/ \E oids \in SeqsUpTo(IDs, MaxList) :
               /\ calls' = Append(calls, Call(op, a, b, "ok"))
               /\ ids' = ids \o oids
               /\ pc' = "loop"
               /\ ret' = ret
    /\ UNCHANGED <<command, cmd, args, accountId, filterNotFound, idx, o, res,
                   written, out>>

ls_Retrieve ==
    /\ command = "disk.ls"
    /\ pc = "loop"
    /\ idx <= Len(ids)
    /\ LET id == ids[idx]
       IN \/ \E f \in Faults :
               /\ calls' = Append(calls, Call("Retrieve", id, "", f))
               /\ LET what == onRetrieveError(filterNotFound, cmd, f)
                  IN IF what = "fatal"
                     THEN /\ Return(retrieveErr(id, f))
                          /\ UNCHANGED <<res, idx>>
                     ELSE /\ res' = IF what = "placeholder"
                                    THEN appendObject(res, Placeholder(id))
                                    ELSE res
                          /\ idx' = idx + 1
                          /\ UNCHANGED <<pc, ret>>
               /\ o' = o
          \/ \E b \in Backings :
               /\ calls' = Append(calls, Call("Retrieve", id, "", "ok"))
               /\ IF lookupTags(cmd)
                  THEN /\ o' = Retrieved(id, b)
                       /\ pc' = "tags"
                       /\ UNCHANGED <<res, idx>>
                  ELSE /\ res' = appendObject(res, Retrieved(id, b))
                       /\ idx' = idx + 1
                       /\ UNCHANGED <<pc, o>>
               /\ ret' = ret
    /\ UNCHANGED <<command, cmd, args, accountId, filterNotFound, ids,
                   written, out>>

\* mutant: a failed tag lookup is recorded and the loop goes on
ls_ListAttachedTags_continue ==
    /\ command = "disk.ls"
    /\ pc = "tags"
    /\ LET id == ids[idx]
       IN \/ \E f \in Faults :
               /\ calls' = Append(calls, Call("ListAttachedTags", id, "", f))
               /\ ret' = RemoteErr("ListAttachedTags", f)
               /\ res' = appendObject(res, o)
               /\ o' = NoObject
               /\ idx' = idx + 1
               /\ pc' = "loop"
          \/ \E t \in TagLists :
               /\ calls' = Append(calls, Call("ListAttachedTags", id, "", "ok"))
               /\ res' = appendObject(res, [o EXCEPT !.tags = t])
               /\ o' = NoObject
               /\ idx' = idx + 1
               /\ pc' = "loop"
               /\ ret' = ret
    /\ UNCHANGED <<command, cmd, args, accountId, filterNotFound, ids,
                   written, out>>

ls_ListAttachedTags ==
    /\ command = "disk.ls"
    /\ pc = "tags"
    /\ LET id == ids[idx]
       IN \/ \E f \in Faults :
               /\ calls' = Append(calls, Call("ListAttachedTags", id, "", f))
               /\ Return(RemoteErr("ListAttachedTags", f))
               /\ UNCHANGED <<res, idx, o>>
          \/ \E t \in TagLists :
               /\ calls' = Append(calls, Call("ListAttachedTags", id, "", "ok"))
               /\ res' = appendObject(res, [o EXCEPT !.tags = t])
               /\ o' = NoObject
               /\ idx' = idx + 1
               /\ pc' = "loop"
               /\ ret' = ret
    /\ UNCHANGED <<command, cmd, args, accountId, filterNotFound, ids,
                   written, out>>

ls_WriteResult ==
    /\ command = "disk.ls"
    /\ pc = "loop"
    /\ idx > Len(ids)
    /\ written' = written + 1
    /\ out' = Write(cmd, res)
    /\ \/ Return(Nil)
       \/ Return(RemoteErr("WriteResult", "io"))
    /\ UNCHANGED <<command, cmd, args, accountId, filterNotFound, ids, idx, o,
                   res, calls>>

-----------------------------------------------------------------------------
(* host.account.remove *)

remove_HostAccountManager ==
    /\ command = "host.account.remove"
    /\ pc = "start"
    /\ \/ \E f \in Faults :
            /\ calls' = Append(calls, Call("HostAccountManager", "", "", f))
            /\ Return(RemoteErr("HostAccountManager", f))
       \/ /\ calls' = Append(calls, Call("HostAccountManager", "", "", "ok"))
          /\ pc' = "remove"
          /\ ret' = ret
    /\ UNCHANGED <<command, cmd, args, accountId, filterNotFound, ids, idx, o,
                   res, written, out>>

\* mutant: the remote error is wrapped with the account id
remove_Remove_wrapped ==
    /\ command = "host.account.remove"
    /\ pc = "remove"
    /\ \/ \E f \in Faults :
            /\ calls' = Append(calls, Call("Remove", accountId, "", f))
            /\ Return([RemoteErr("Remove", f) EXCEPT !.prefix = "remove",
                                                     !.id = accountId])
       \/ /\ calls' = Append(calls, Call("Remove", accountId, "", "ok"))
          /\ Return(Nil)
    /\ UNCHANGED <<command, cmd, args, accountId, filterNotFound, ids, idx, o,
                   res, written, out>>

remove_Remove ==
    /\ command = "host.account.remove"
    /\ pc = "remove"
    /\ \/ \E f \in Faults :
            /\ calls' = Append(calls, Call("Remove", accountId, "", f))
            /\ Return(RemoteErr("Remove", f))
       \/ /\ calls' = Append(calls, Call("Remove", accountId, "", "ok"))
          /\ Return(Nil)
    /\ UNCHANGED <<command, cmd, args, accountId, filterNotFound, ids, idx, o,
                   res, written, out>>

-----------------------------------------------------------------------------

Init ==
    /\ command \in {"disk.ls", "host.account.remove"}
    /\ IF command = "disk.ls"
       THEN /\ \E q \in Queries :
                 cmd \in [all : BOOLEAN, path : BOOLEAN, r : BOOLEAN,
                          category : {q[1]}, tag : {q[2]}, tags : BOOLEAN]
            /\ args \in SeqsUpTo(IDs, MaxArgs)
            /\ accountId = ""
       ELSE /\ cmd = DefaultFlags
            /\ args = <<>>
            /\ accountId \in Accounts
    /\ pc = "start"
    /\ filterNotFound = FALSE
    /\ ids = <<>>
    /\ idx = 1
    /\ o = NoObject
    /\ res = <<>>
    /\ ret = Nil
    /\ calls = <<>>
    /\ written = 0
    /\ out = <<>>

Next ==
    \/ ls_NewManager
    \/ ls_Reconcile
    \/ ls_Args
    \/ ls_Discover
    \/ ls_Retrieve
    \/ ls_ListAttachedTags
    \/ ls_WriteResult
    \/ remove_HostAccountManager
    \/ remove_Remove

Spec == Init /\ [][Next]_vars

-----------------------------------------------------------------------------
(* Properties *)

Last(s) == s[Len(s)]
CallsOf(ops) == {i \in DOMAIN calls : calls[i].op \in ops}
IsRetrieveCall(c) == c.op = "Retrieve"
\* the step appends a call op whose outcome is in rs
Calling(op, rs) ==
    /\ Len(calls') = Len(calls) + 1
    /\ Last(calls').op = op
    /\ Last(calls').res \in rs
\* a call that the run does not survive
Fatal(i) ==
    /\ calls[i].res # "ok"
    /\ ~(calls[i].op = "Retrieve" /\ calls[i].res = "NotFound" /\ Len(args) = 0)
ManagerOK == Len(calls) >= 1 /\ calls[1].res = "ok"

\* C1: with positional IDs, a Retrieve that fails with NotFound ends the run
\* with a non-nil error whatever -a is: it is the last call made, nothing is
\* written, the result holds no placeholder and the loop does not move on.
C1_ExplicitNotFoundAborts ==
    (command = "disk.ls" /\ Len(args) > 0) =>
        \A i \in CallsOf({"Retrieve"}) :
            calls[i].res = "NotFound" =>
                /\ pc = "done"
                /\ ret # Nil
                /\ i = Len(calls)
                /\ written = 0
                /\ ids[idx] = calls[i].arg
                /\ \A j \in DOMAIN res : res[j].name # NotFoundName

C1_Witness ==
    /\ command = "disk.ls"
    /\ cmd.all
    /\ Len(args) = 2
    /\ pc = "done"
    /\ Len(res) = 1
    /\ Last(calls).op = "Retrieve"
    /\ Last(calls).res = "NotFound"

\* C2: without positional IDs, a Retrieve that fails with NotFound returns no
\* error: the step leaves the run in the loop at the next ID, appends exactly
\* one placeholder (that ID, the sentinel name) when -a is set and nothing
\* otherwise; and no run of the discovery path ever returns that fault.
C2_DiscoveryNotFoundTolerated ==
    /\ [][(command = "disk.ls" /\ Len(args) = 0
              /\ Calling("Retrieve", {"NotFound"})) =>
            /\ ret' = Nil
            /\ pc' = "loop"
            /\ idx' = idx + 1
            /\ ids' = ids
            /\ Last(calls').arg = ids[idx]
            /\ IF cmd.all
               THEN /\ Len(res') = Len(res) + 1
                    /\ SubSeq(res', 1, Len(res)) = res
                    /\ Last(res').id = ids[idx]
                    /\ Last(res').name = NotFoundName
               ELSE res' = res]_vars
    /\ [](command = "disk.ls" /\ Len(args) = 0 =>
            ~(ret.src = "Retrieve" /\ ret.fault = "NotFound"))

C2_Witness ==
    /\ command = "disk.ls"
    /\ Len(args) = 0
    /\ cmd.all
    /\ pc = "done"
    /\ ret = Nil
    /\ Len(res) = 2
    /\ res[1].name = NotFoundName
    /\ res[2].name # NotFoundName
    /\ calls[Len(calls) - 1].res = "NotFound"

\* C3: with no positional IDs, a run whose manager acquisition and reconcile
\* succeeded makes exactly one discovery call: List when -c is empty,
\* ListAttachedObjects(category, tag) otherwise; with positional IDs it makes
\* none.
C3_DiscoveryOnce ==
    command = "disk.ls" =>
        LET d == CallsOf({"List", "ListAttachedObjects"})
        IN /\ Len(args) > 0 => d = {}
           /\ Cardinality(d) <= 1
           /\ \A i \in d :
                IF cmd.category = ""
                THEN calls[i].op = "List"
                ELSE /\ calls[i].op = "ListAttachedObjects"
                     /\ calls[i].arg = cmd.category
                     /\ calls[i].arg2 = cmd.tag
           /\ (/\ Len(args) = 0
               /\ pc \in {"loop", "tags", "done"}
               /\ \A i \in CallsOf({"NewManagerFromFlag",
                                    "ReconcileDatastoreInventory"}) :
                      calls[i].res = "ok")
              => Cardinality(d) = 1

C3_Witness ==
    /\ command = "disk.ls"
    /\ Len(args) = 0
    /\ cmd.category # ""
    /\ cmd.r
    /\ pc = "done"
    /\ ret = Nil
    /\ Len(res) = 2
    /\ Cardinality(CallsOf({"ListAttachedObjects"})) = 1

\* C4: with -T every successful Retrieve is followed at once by one
\* ListAttachedTags of the same ID, and ListAttachedTags is called nowhere
\* else; so a successful run has one lookup per retrieved object and none for
\* a placeholder.  Without -T ListAttachedTags is never called.
C4_TagLookupOncePerObject ==
    command = "disk.ls" =>
        LET t == CallsOf({"ListAttachedTags"})
            got == {i \in CallsOf({"Retrieve"}) : calls[i].res = "ok"}
        IN /\ ~cmd.tags => t = {}
           /\ \A i \in t :
                /\ i - 1 \in got
                /\ calls[i - 1].arg = calls[i].arg
           /\ cmd.tags =>
                \A i \in got :
                    IF i = Len(calls)
                    THEN pc = "tags"
                    ELSE /\ calls[i + 1].op = "ListAttachedTags"
                         /\ calls[i + 1].arg = calls[i].arg
           /\ (cmd.tags /\ pc = "done" /\ ret = Nil) =>
                /\ Cardinality(t) = Cardinality(got)
                /\ Cardinality(t) =
                     Cardinality({j \in DOMAIN res :
                                     res[j].name # NotFoundName})

C4_Witness ==
    /\ command = "disk.ls"
    /\ cmd.tags
    /\ cmd.all
    /\ pc = "done"
    /\ ret = Nil
    /\ Len(res) = 2
    /\ res[1].name = NotFoundName
    /\ Len(res[2].tags) = 1
    /\ Cardinality(CallsOf({"ListAttachedTags"})) = 1

\* C5 as stated: every run with -R has called ReconcileDatastoreInventory
\* exactly once by the time it ends.
C5_ReconcileAlwaysOnce ==
    (command = "disk.ls" /\ cmd.r /\ pc = "done") =>
        Cardinality(CallsOf({"ReconcileDatastoreInventory"})) = 1

\* C5 amended: with -R, once the manager has been obtained
\* ReconcileDatastoreInventory is called exactly once, before any List,
\* ListAttachedObjects, Retrieve or ListAttachedTags; if it fails the run
\* ends with that error, none of those calls and nothing written.  It is
\* never called when -R is unset or when the manager could not be obtained.
C5_ReconcileOnceAfterManager ==
    command = "disk.ls" =>
        LET rc == CallsOf({"ReconcileDatastoreInventory"})
            later == CallsOf({"List", "ListAttachedObjects", "Retrieve",
                              "ListAttachedTags"})
        IN /\ ~cmd.r => rc = {}
           /\ ~ManagerOK => rc = {}
           /\ Cardinality(rc) <= 1
           /\ (cmd.r /\ ManagerOK /\ pc # "reconcile") => Cardinality(rc) = 1
           /\ cmd.r => \A i \in later :
                          \E j \in rc : j < i /\ calls[j].res = "ok"
           /\ \A j \in rc :
                calls[j].res # "ok" =>
                    /\ pc = "done"
                    /\ ret = [prefix |-> "", id |-> "",
                              src |-> "ReconcileDatastoreInventory",
                              fault |-> calls[j].res]
                    /\ later = {}
                    /\ written = 0
                    /\ out = <<>>

C5_Witness ==
    /\ command = "disk.ls"
    /\ cmd.r
    /\ pc = "done"
    /\ ret = Nil
    /\ Cardinality(CallsOf({"ReconcileDatastoreInventory"})) = 1
    /\ Cardinality(CallsOf({"Retrieve"})) = 2

\* C6: host.account.remove calls Remove at most once, with the account id of
\* the flags; a run that obtained the manager called it exactly once and
\* returns its result as it is (nil, or the remote error); a run that did not
\* obtain the manager never calls Remove and returns that error.
C6_RemoveReturnsRemoteResult ==
    command = "host.account.remove" =>
        LET rm == CallsOf({"Remove"})
        IN /\ Cardinality(rm) <= 1
           /\ \A i \in rm : calls[i].arg = accountId
           /\ pc = "done" =>
                IF calls[1].res = "ok"
                THEN /\ Len(calls) = 2
                     /\ rm = {2}
                     /\ ret = IF calls[2].res = "ok"
                              THEN Nil
                              ELSE [prefix |-> "", id |-> "", src |-> "Remove",
                                    fault |-> calls[2].res]
                ELSE /\ rm = {}
                     /\ Len(calls) = 1
                     /\ ret = [prefix |-> "", id |-> "",
                               src |-> "HostAccountManager",
                               fault |-> calls[1].res]

C6_Witness ==
    /\ command = "host.account.remove"
    /\ pc = "done"
    /\ Len(calls) = 2
    /\ calls[2].op = "Remove"
    /\ calls[2].res = "NoPermission"
    /\ ret.fault = "NoPermission"

\* C7: on a successful run the objects of the result are, in order, the
\* requested (or discovered) IDs whose Retrieve succeeded, together with,
\* when -a is set, the IDs that were not found: one object per such ID, none
\* besides, nothing sorted and nothing de-duplicated.
C7_ObjectsFollowIds ==
    (command = "disk.ls" /\ pc = "done" /\ ret = Nil) =>
        LET rc == SelectSeq(calls, IsRetrieveCall)
            kept == {k \in DOMAIN ids : rc[k].res = "ok" \/ cmd.all}
            \* the position in the result of the object of the k-th ID
            pos(k) == Cardinality({h \in kept : h <= k})
        IN /\ Len(args) > 0 => ids = args
           /\ Len(rc) = Len(ids)
           /\ \A k \in DOMAIN ids : rc[k].arg = ids[k]
           /\ Len(res) = Cardinality(kept)
           /\ \A k \in kept :
                /\ res[pos(k)].id = ids[k]
                /\ (res[pos(k)].name = NotFoundName) <=> (rc[k].res # "ok")

C7_Witness ==
    /\ command = "disk.ls"
    /\ pc = "done"
    /\ ret = Nil
    /\ ~cmd.all
    /\ Len(ids) = 2
    /\ ids[1] = "id2"
    /\ Len(res) = 1
    /\ res[1].id = "id2"

\* C8: the second column of a written row is the backing file path exactly
\* when -L is set and the object's backing is a disk-file backing; in every
\* other case it is the configured name.
C8_PathOnlyForDiskFileBacking ==
    (command = "disk.ls" /\ written = 1) =>
        /\ Len(out) = Len(res)
        /\ \A i \in DOMAIN res :
             /\ out[i].id = res[i].id
             /\ (out[i].name = FilePathOf(res[i].id))
                  <=> (cmd.path /\ res[i].backing = "DiskFileBackingInfo")
             /\ ~(cmd.path /\ res[i].backing = "DiskFileBackingInfo")
                  => out[i].name = res[i].name

C8_Witness ==
    /\ command = "disk.ls"
    /\ written = 1
    /\ cmd.path
    /\ Len(res) = 2
    /\ res[1].backing = "DiskFileBackingInfo"
    /\ res[2].backing = "RawDiskMappingBackingInfo"
    /\ out[1].name = FilePathOf(res[1].id)
    /\ out[2].name = NameOf(res[2].id)

\* C9: a Retrieve that fails with any fault other than NotFound ends the
\* run, with or without positional IDs and whatever -a is: the error names
\* the ID, the result is left as it was and the loop does not move on.
C9_OtherRetrieveFailureFatal ==
    [][(command = "disk.ls" /\ Calling("Retrieve", Faults \ {"NotFound"})) =>
            /\ pc' = "done"
            /\ ret' # Nil
            /\ ret'.prefix = "retrieve"
            /\ ret'.id = ids[idx]
            /\ ret'.fault = Last(calls').res
            /\ Last(calls').arg = ids[idx]
            /\ res' = res
            /\ idx' = idx
            /\ written' = 0]_vars

C9_Witness ==
    /\ command = "disk.ls"
    /\ Len(args) = 0
    /\ cmd.all
    /\ pc = "done"
    /\ Len(res) = 1
    /\ Last(calls).op = "Retrieve"
    /\ Last(calls).res = "NoPermission"
    /\ ret.prefix = "retrieve"

\* C10: the result is written at most once and only when every ID has been
\* processed and no call was fatal; a fatal call is the last call of the run,
\* which ends with an error and writes nothing of what it had accumulated.
C10_AllOrNothing ==
    command = "disk.ls" =>
        /\ written <= 1
        /\ written = 1 =>
             /\ pc = "done"
             /\ idx = Len(ids) + 1
             /\ Len(SelectSeq(calls, IsRetrieveCall)) = Len(ids)
             /\ \A i \in DOMAIN calls : ~Fatal(i)
        /\ written = 0 => out = <<>>
        /\ \A i \in DOMAIN calls :
             Fatal(i) =>
                /\ i = Len(calls)
                /\ pc = "done"
                /\ ret # Nil
                /\ written = 0

C10_Witness ==
    /\ command = "disk.ls"
    /\ pc = "done"
    /\ Len(res) = 1
    /\ Last(calls).op = "ListAttachedTags"
    /\ Last(calls).res # "ok"
    /\ written = 0

====
